---------------------------- MODULE Spec2Model ----------------------------
(***************************************************************************)
(* Model of Bio/AlignIO/MafIO.py: the MafIndex class (UCSC binning, the    *)
(* sqlite index build, the checks on reopening an index, search and        *)
(* get_spliced) over small MAF sources.                                    *)
(*                                                                         *)
(* Sequence texts are sequences of one-letter strings, coordinates are the *)
(* integers of the MAF 's' lines (Python integers: no overflow).           *)
(***************************************************************************)
EXTENDS Integers, Sequences, FiniteSets, TLC

(***************************************************************************)
(* Bounds of the model.                                                    *)
(***************************************************************************)
\* largest number of alignment blocks in a source file
MaxBlocks == 2
\* largest number of intervals in one search / get_spliced call
MaxExons == 2
\* number of entries per executemany/commit batch of __make_new_index
\* (islice(mafindex_func, 100) in the source, scaled down to the sources
\* of at most MaxBlocks blocks)
BatchSize == 1

(***************************************************************************)
(* Program constants.                                                      *)
(***************************************************************************)
MAFINDEX_VERSION == 1
\* value of the 'record_count' row while the build has not finished
SENTINEL == -1
\* _ucscbin
bin_first_shift == 17
bin_next_shift == 3
bin_offsets == <<512 + 64 + 8 + 1, 64 + 8 + 1, 8 + 1, 1, 0>>

(***************************************************************************)
(* Generic helpers.                                                        *)
(***************************************************************************)
\* Python's  x >> k  on a non-negative integer
Shr(x, k) == x \div (2 ^ k)

Min(a, b) == IF a < b THEN a ELSE b

\* range(a, b)
Range(a, b) == a .. (b - 1)

RECURSIVE SumSeq(_)
SumSeq(s) == IF s = <<>> THEN 0 ELSE Head(s) + SumSeq(Tail(s))

\* c repeated n times  (filler_char * n)
Repeat(c, n) == [i \in 1 .. n |-> c]

\* text.replace("-", "")
RECURSIVE Ungap(_)
Ungap(text) ==
    IF text = <<>> THEN <<>>
    ELSE IF Head(text) = "-" THEN Ungap(Tail(text))
         ELSE <<Head(text)>> \o Ungap(Tail(text))

(***************************************************************************)
(* The two bin-related static methods.                                     *)
(***************************************************************************)
\* MafIndex._region2bin(start, end): bins a region may belong to
region2bin(start, end) ==
    {0, 1}
    \cup Range(1 + Shr(start, 26), 2 + Shr(end - 1, 26))
    \cup Range(9 + Shr(start, 23), 10 + Shr(end - 1, 23))
    \cup Range(73 + Shr(start, 20), 74 + Shr(end - 1, 20))
    \cup Range(585 + Shr(start, 17), 586 + Shr(end - 1, 17))

\* the for loop of _ucscbin, from the i-th bin offset on
RECURSIVE ucscbin_loop(_, _, _)
ucscbin_loop(i, start_bin, end_bin) ==
    IF i > Len(bin_offsets) THEN 0
    ELSE IF start_bin = end_bin THEN bin_offsets[i] + start_bin
    ELSE ucscbin_loop(i + 1, Shr(start_bin, bin_next_shift),
                      Shr(end_bin, bin_next_shift))

\* MafIndex._ucscbin(start, end): smallest bin the region fits into
ucscbin(start, end) ==
    ucscbin_loop(1, Shr(start, bin_first_shift), Shr(end - 1, bin_first_shift))

(***************************************************************************)
(* MAF sources.  A block (one 'a' line and its 's' lines) is the sequence  *)
(* of its records, a record the fields of an 's' line that MafIterator and *)
(* __maf_indexer read: src, start, size, strand (+1/-1) and text.          *)
(***************************************************************************)
SeqRec(id, start, size, strand, text) ==
    [id |-> id, start |-> start, size |-> size, strand |-> strand, text |-> text]

\* a reference start beyond 2^30 whose two-letter span crosses a 2^26 boundary
HighStart == 2 ^ 30 + 2 ^ 26 - 1

BlkSimple == << SeqRec("ref", 0, 3, 1, <<"A", "C", "G">>),
                SeqRec("alt", 7, 3, 1, <<"A", "C", "C">>) >>
\* leading, internal and trailing gaps in the reference
BlkGaps   == << SeqRec("ref", 4, 3, 1, <<"-", "A", "-", "C", "T", "-">>),
                SeqRec("alt", 20, 6, 1, <<"G", "A", "T", "C", "T", "A">>),
                SeqRec("oth", 3, 4, -1, <<"G", "-", "T", "C", "-", "A">>) >>
\* overlaps the reference span of BlkSimple
BlkOver   == << SeqRec("ref", 2, 2, 1, <<"G", "T">>),
                SeqRec("oth", 0, 2, 1, <<"G", "A">>) >>
\* reference on the minus strand
BlkMinus  == << SeqRec("ref", 8, 2, -1, <<"G", "T">>),
                SeqRec("alt", 30, 2, 1, <<"G", "T">>) >>
BlkHigh   == << SeqRec("ref", HighStart, 2, 1, <<"A", "C">>),
                SeqRec("alt", 40, 2, 1, <<"A", "T">>) >>
\* no 's' line of the reference
BlkNoRef  == << SeqRec("alt", 0, 2, 1, <<"A", "C">>),
                SeqRec("oth", 0, 2, 1, <<"A", "C">>) >>
\* size field differs from the number of letters
BlkBadLen == << SeqRec("ref", 12, 3, 1, <<"A", "C">>),
                SeqRec("alt", 0, 2, 1, <<"A", "C">>) >>
\* the same non-reference id on two 's' lines
BlkDup    == << SeqRec("ref", 14, 2, 1, <<"A", "C">>),
                SeqRec("alt", 0, 2, 1, <<"A", "C">>),
                SeqRec("alt", 50, 2, -1, <<"G", "T">>) >>

Catalog == {BlkSimple, BlkGaps, BlkOver, BlkMinus, BlkHigh,
            BlkNoRef, BlkBadLen, BlkDup}

Sources == UNION {[1 .. n -> Catalog] : n \in 0 .. MaxBlocks}

\* arguments of the MafIndex constructor
Files == {"f1", "f2"}
Targets == {"ref", "alt"}
\* the file and reference the index is built for
BuildFile == "f1"
BuildTarget == "ref"

\* bytes of a line terminator in the source file: 1 (LF) or 2 (CR LF)
VARIABLE newline

\* bytes of one block in the file: the 'a' line, one line per record (the
\* text and its terminator after the other fields) and the blank line
RECURSIVE BlockBytes(_)
BlockBytes(block) ==
    IF block = <<>> THEN (1 + newline) + newline
    ELSE Len(Head(block).text) + newline + BlockBytes(Tail(block))

\* the byte position at which the 'a' line of block k begins
RECURSIVE LineStart(_, _)
LineStart(src, k) ==
    IF k <= 1 THEN 0 ELSE LineStart(src, k - 1) + BlockBytes(src[k - 1])

\* offset = self._maf_fp.tell() - len(line) at the 'a' line of block k.  The
\* handle is opened in text mode: tell() is the byte position after the
\* line, len(line) counts the characters of the line after its terminator
\* was translated to one "\n"
Offset(src, k) ==
    LET tell == LineStart(src, k) + 1 + newline
        len_line == 1 + 1
    IN  tell - len_line

\* index in the block of the first 's' line of the target, 0 if there is none
RECURSIVE FirstTarget(_, _, _)
FirstTarget(block, target, i) ==
    IF i > Len(block) THEN 0
    ELSE IF block[i].id = target THEN i
    ELSE FirstTarget(block, target, i + 1)

\* __maf_indexer on block k: the error it raises there, or "none"
IndexerError(src, k, target) ==
    LET i == FirstTarget(src[k], target, 1) IN
    IF i = 0 THEN "TargetNotFound"
    ELSE IF src[k][i].size # Len(Ungap(src[k][i].text)) THEN "LengthMismatch"
    ELSE "none"

\* __maf_indexer on block k: the (bin, start, end, offset) tuple it yields
IndexerEntry(src, k, target) ==
    LET rec == src[k][FirstTarget(src[k], target, 1)]
        start == rec.start
        end == start + rec.size - 1
    IN  [bin |-> ucscbin(start, end + 1), start |-> start, end |-> end,
         offset |-> Offset(src, k)]

(***************************************************************************)
(* State.                                                                  *)
(***************************************************************************)
VARIABLES
    source,   \* the MAF file: sequence of blocks
    db,       \* the sqlite file as a new connection sees it (committed state)
    build,    \* the index object that builds the store (__make_new_index)
    reader,   \* an index object constructed on the existing store
              \* (of both: maf_fp is the state of the handle self._maf_fp,
              \* mafiter the state of the generator self._mafiter, dropped
              \* whether the caller has let go of the object)
    call,     \* the search / get_spliced call in progress and its outcome
    binq,     \* arguments and results of the two bin functions
    procs     \* per index object: the search it runs step by step, and the
              \* position of its handle on the source

vars == <<source, db, build, reader, call, binq, procs, newline>>

NoDb == [exists |-> FALSE, has_meta |-> FALSE, version |-> 0, filename |-> "",
         target_seqname |-> "", record_count |-> 0, rows |-> <<>>]

NoBuild == [pc |-> "none", implicit_commit |-> FALSE, scanned |-> 0,
            insert_count |-> 0, error |-> "none", maf_fp |-> "none",
            mafiter |-> "none", dropped |-> FALSE]

NoReader == [status |-> "none", maf_file |-> "", target_seqname |-> "",
             record_count |-> 0, maf_fp |-> "none", mafiter |-> "none",
             dropped |-> FALSE]

NoCall == [op |-> "none"]

NoBinq == [start |-> 0, end |-> 1, done |-> FALSE, smallest |-> 0,
           candidates |-> {}]

NoProc == [pc |-> "idle", starts |-> <<>>, ends |-> <<>>, exon |-> 0,
           rows |-> <<>>, fetched |-> <<>>, yielded |-> <<>>,
           error |-> "none", cursor |-> 0]

NoProcs == [who \in {"build", "reader"} |-> NoProc]

Init ==
    /\ source \in Sources
    /\ db = NoDb
    /\ build = NoBuild
    /\ reader = NoReader
    /\ call = NoCall
    /\ binq = NoBinq
    /\ procs = NoProcs
    /\ newline = 1

(***************************************************************************)
(* MafIndex.__init__ when the sqlite file does not exist:                  *)
(* __make_new_index.                                                       *)
(***************************************************************************)
\* the four rows inserted into meta_data before the scan
SentinelMeta(d) ==
    [d EXCEPT !.has_meta = TRUE, !.version = 1, !.record_count = SENTINEL,
              !.target_seqname = BuildTarget, !.filename = BuildFile]

\* open(self._maf_file), connect, CREATE TABLE and INSERT statements up to
\* the scan.  The INSERTs
\* are not followed by a commit: whether they are persisted here depends on
\* the sqlite3 module (it commits before the CREATE TABLE offset_data
\* statement in Python < 3.6 and leaves the transaction open from 3.6 on).
BuildStart(implicit_commit) ==
    /\ ~db.exists
    /\ build.pc = "none"
    /\ db' = IF implicit_commit THEN SentinelMeta([NoDb EXCEPT !.exists = TRUE])
             ELSE [NoDb EXCEPT !.exists = TRUE]
    /\ build' = [NoBuild EXCEPT !.pc = "scan", !.maf_fp = "open",
                                !.implicit_commit = implicit_commit]
    /\ UNCHANGED <<source, reader, call, binq, procs, newline>>

\* blocks the next islice(mafindex_func, BatchSize) reads
BatchWindow == (build.scanned + 1) .. Min(build.scanned + BatchSize, Len(source))

\* one iteration of the while loop: a non-empty batch is inserted and committed
BuildBatch ==
    /\ build.pc = "scan"
    /\ BatchWindow # {}
    /\ \A k \in BatchWindow : IndexerError(source, k, BuildTarget) = "none"
    /\ LET n == Cardinality(BatchWindow)
           batch == [i \in 1 .. n |->
                        IndexerEntry(source, build.scanned + i, BuildTarget)]
       IN  /\ db' = [SentinelMeta(db) EXCEPT !.rows = db.rows \o batch]
           /\ build' = [build EXCEPT !.scanned = build.scanned + n,
                                     !.insert_count = build.insert_count + n]
    /\ UNCHANGED <<source, reader, call, binq, procs, newline>>

\* __maf_indexer raises while the batch is collected: the exception leaves
\* __init__, nothing of this batch (or of an open transaction) is committed
BuildFail ==
    /\ build.pc = "scan"
    /\ \E k \in BatchWindow :
          /\ IndexerError(source, k, BuildTarget) # "none"
          /\ \A j \in BatchWindow : j < k =>
                 IndexerError(source, j, BuildTarget) = "none"
          /\ build' = [build EXCEPT !.pc = "failed",
                          !.error = IndexerError(source, k, BuildTarget)]
    /\ UNCHANGED <<source, db, reader, call, binq, procs, newline>>

\* empty batch: break, CREATE INDEX, UPDATE record_count, commit, return;
\* __init__ then sets up the MafIterator on the handle
BuildFinish ==
    /\ build.pc = "scan"
    /\ BatchWindow = {}
    /\ db' = [SentinelMeta(db) EXCEPT !.record_count = build.insert_count]
    /\ build' = [build EXCEPT !.pc = "ready", !.mafiter = "ready"]
    /\ UNCHANGED <<source, reader, call, binq, procs, newline>>

(***************************************************************************)
(* MafIndex.__init__ when the sqlite file exists: __check_existing_db.     *)
(* The program is single-threaded: a constructor runs between two calls,   *)
(* not inside one.                                                         *)
(***************************************************************************)
\* __check_existing_db without the comparison of the number of rows with
\* the stored record count
check_existing_db_no_count(d, maf_file, target_seqname) ==
    IF ~d.has_meta THEN "TypeError"
    ELSE IF d.version # MAFINDEX_VERSION THEN "VersionMismatch"
    ELSE IF d.filename # maf_file THEN "IdentityMismatch"
    ELSE IF d.target_seqname # target_seqname THEN "IdentityMismatch"
    ELSE IF d.record_count = -1 THEN "CorruptIndex"
    ELSE "ok"

\* outcome of __check_existing_db for the requested file and reference:
\* "ok" or the error raised.  fetchone() is None when the meta_data rows
\* were never committed, and None[0] is a TypeError.
check_existing_db(d, maf_file, target_seqname) ==
    IF ~d.has_meta THEN "TypeError"
    ELSE IF d.version # MAFINDEX_VERSION THEN "VersionMismatch"
    ELSE IF d.filename # maf_file THEN "IdentityMismatch"
    ELSE IF d.target_seqname # target_seqname THEN "IdentityMismatch"
    ELSE IF d.record_count = -1 THEN "CorruptIndex"
    ELSE IF Len(d.rows) # d.record_count THEN "CorruptIndex"
    ELSE "ok"

\* the constructor on an existing store: the handle is opened first, the
\* MafIterator is set up only when __check_existing_db has returned.  (The
\* model holds one such object at a time: the next one is constructed when
\* the handle of the previous one is gone.)
Open(maf_file, target_seqname) ==
    /\ db.exists
    /\ call.op = "none"
    /\ reader.maf_fp # "open"
    /\ LET status == check_existing_db(db, maf_file, target_seqname) IN
       reader' = [status |-> status, maf_file |-> maf_file,
                  target_seqname |-> target_seqname,
                  record_count |-> IF status = "ok" THEN Len(db.rows) ELSE 0,
                  maf_fp |-> "open",
                  mafiter |-> IF status = "ok" THEN "ready" ELSE "none",
                  dropped |-> FALSE]
    /\ UNCHANGED <<source, db, build, call, binq, procs, newline>>

\* the two index objects: the one that built the store and the one
\* constructed on the existing store
Objects == {"build", "reader"}

\* the constructor of the object has returned and the caller holds the object
Usable(who) ==
    IF who = "build" THEN build.pc = "ready" /\ ~build.dropped
    ELSE reader.status = "ok" /\ ~reader.dropped

(***************************************************************************)
(* The environment edits one meta_data row of a completed index.           *)
(***************************************************************************)
TamperRecordCount(n) ==
    /\ build.pc = "ready"
    /\ call.op = "none"
    /\ n # db.record_count
    /\ db' = [db EXCEPT !.record_count = n]
    /\ UNCHANGED <<source, build, reader, call, binq, procs, newline>>

TamperVersion(v) ==
    /\ build.pc = "ready"
    /\ call.op = "none"
    /\ v # db.version
    /\ db' = [db EXCEPT !.version = v]
    /\ UNCHANGED <<source, build, reader, call, binq, procs, newline>>

StoredCounts == SENTINEL .. MaxBlocks
StoredVersions == {MAFINDEX_VERSION, MAFINDEX_VERSION + 1}

(***************************************************************************)
(* The end of an index object.  MafIndex has no close method, no __del__   *)
(* and is no context manager: the caller can only let go of the object,    *)
(* and the handle self._maf_fp is closed when the interpreter collects the *)
(* file object.                                                            *)
(***************************************************************************)
\* the constructor of the object raised, or the caller has let go of it
Gone(who) ==
    IF who = "build" THEN build.pc = "failed" \/ build.dropped
    ELSE reader.status \notin {"none", "ok"} \/ reader.dropped

\* self._maf_fp of the object
HandleOf(who) == IF who = "build" THEN build.maf_fp ELSE reader.maf_fp

\* the caller lets go of an index object it holds
Teardown(who) ==
    /\ Usable(who)
    /\ call.op = "none"
    /\ build' = IF who = "build" THEN [build EXCEPT !.dropped = TRUE]
                ELSE build
    /\ reader' = IF who = "reader" THEN [reader EXCEPT !.dropped = TRUE]
                 ELSE reader
    /\ UNCHANGED <<source, db, call, binq, procs, newline>>

\* the interpreter collects the file object of an index object that is gone
Finalize(who) ==
    /\ Gone(who)
    /\ HandleOf(who) = "open"
    /\ build' = IF who = "build" THEN [build EXCEPT !.maf_fp = "closed"]
                ELSE build
    /\ reader' = IF who = "reader" THEN [reader EXCEPT !.maf_fp = "closed"]
                 ELSE reader
    /\ UNCHANGED <<source, db, call, binq, procs, newline>>

NextStore ==
    \/ \E ic \in BOOLEAN : BuildStart(ic)
    \/ BuildBatch
    \/ BuildFail
    \/ BuildFinish
    \/ \E f \in Files, t \in Targets : Open(f, t)
    \/ \E n \in StoredCounts : TamperRecordCount(n)
    \/ \E v \in StoredVersions : TamperVersion(v)
    \/ \E who \in Objects : Teardown(who)
    \/ \E who \in Objects : Finalize(who)

SpecStore == Init /\ [][NextStore]_vars

(***************************************************************************)
(* MafIndex.search.                                                        *)
(***************************************************************************)
\* ORDER BY start, end, offset ASC on (start, end, offset) rows
RowLess(a, b) ==
    \/ a[1] < b[1]
    \/ a[1] = b[1] /\ a[2] < b[2]
    \/ a[1] = b[1] /\ a[2] = b[2] /\ a[3] < b[3]

RECURSIVE OrderRows(_)
OrderRows(S) ==
    IF S = {} THEN <<>>
    ELSE LET first == CHOOSE x \in S : \A y \in S \ {x} : RowLess(x, y)
         IN  <<first>> \o OrderRows(S \ {first})

\* the SELECT DISTINCT start, end, offset ... statement of search for one
\* exon: rows whose bin is a possible bin and for which
\* end BETWEEN exonstart AND exonend - 1 OR exonend - 1 BETWEEN start AND end
select_rows(d, exonstart, exonend) ==
    LET possible_bins == region2bin(exonstart, exonend)
        hit(r) == /\ r.bin \in possible_bins
                  /\ \/ (r.end >= exonstart /\ r.end <= exonend - 1)
                     \/ (exonend - 1 >= r.start /\ exonend - 1 <= r.end)
    IN  OrderRows({<<d.rows[i].start, d.rows[i].end, d.rows[i].offset>> :
                      i \in {j \in DOMAIN d.rows : hit(d.rows[j])}})

\* MafIterator raises ValueError on an 's' line that has not 7 fields (here:
\* a line without the text field); the exception ends the generator
parse_error(block) == \E j \in DOMAIN block : block[j].text = <<>>

\* no 'a' line begins at or after the offset: the parser reaches the end of
\* the file without a block and its generator finishes
at_end(src, offset) == \A k \in DOMAIN src : LineStart(src, k) < offset

\* _get_record(offset): seek to the offset and parse the next block, the
\* one of the first 'a' line that begins at or after the offset (lines before
\* it are outside of a bundle and skipped)
get_record(src, offset) ==
    IF at_end(src, offset) THEN <<>>
    ELSE src[CHOOSE k \in DOMAIN src :
                 /\ LineStart(src, k) >= offset
                 /\ \A j \in DOMAIN src :
                       LineStart(src, j) >= offset => k <= j]

\* the check of the fetched block against the row: every record of the
\* target has the start and inclusive end of the row
fetched_matches(fetched, target, rec_start, rec_end) ==
    \A i \in DOMAIN fetched :
        fetched[i].id = target =>
            /\ fetched[i].start = rec_start
            /\ fetched[i].start + fetched[i].size - 1 = rec_end

\* the loop over the rows of one exon: the blocks yielded (each with the row
\* it was fetched for) and the error that ended the loop, if any.  mafiter
\* is the state of self._mafiter: next() of a generator that has finished
\* raises StopIteration.
RECURSIVE fetch_rows(_, _, _, _)
fetch_rows(mafiter, src, target, rows) ==
    IF rows = <<>> THEN [yielded |-> <<>>, error |-> "none"]
    ELSE LET row == Head(rows)
             fetched == get_record(src, row[3])
         IN  IF mafiter = "finished" \/ at_end(src, row[3])
             THEN [yielded |-> <<>>, error |-> "StopIteration"]
             ELSE IF parse_error(fetched)
             THEN [yielded |-> <<>>, error |-> "ParseError"]
             ELSE IF ~fetched_matches(fetched, target, row[1], row[2])
             THEN [yielded |-> <<>>, error |-> "CoordinateMismatch"]
             ELSE LET rest == fetch_rows(mafiter, src, target, Tail(rows))
                  IN  [yielded |-> <<[start |-> row[1], end |-> row[2],
                                      offset |-> row[3], block |-> fetched]>>
                                   \o rest.yielded,
                       error |-> rest.error]

\* the loop over the exons, from exon i on
RECURSIVE search_exons(_, _, _, _, _, _, _)
search_exons(mafiter, d, src, target, starts, ends, i) ==
    IF i > Min(Len(starts), Len(ends)) THEN [yielded |-> <<>>, error |-> "none"]
    ELSE LET here == fetch_rows(mafiter, src, target,
                                select_rows(d, starts[i], ends[i]))
         IN  IF here.error # "none" THEN here
             ELSE LET rest == search_exons(mafiter, d, src, target, starts,
                                           ends, i + 1)
                  IN  [yielded |-> here.yielded \o rest.yielded,
                       error |-> rest.error]

\* a StopIteration that leaves the body of the generator search: the
\* consumer gets a RuntimeError from Python 3.7 on (PEP 479) and the plain
\* end of the generator before
generator_exit(out, pep479) ==
    IF out.error = "StopIteration"
    THEN [out EXCEPT !.error = IF pep479 THEN "RuntimeError" ELSE "none"]
    ELSE out

\* search(starts, ends), consumed to its end: the blocks yielded in order and
\* the error raised, if any
search(mafiter, pep479, d, src, target, starts, ends) ==
    IF Len(starts) # Len(ends)
    THEN [yielded |-> <<>>, error |-> "QueryError"]
    ELSE IF \E i \in DOMAIN starts : ends[i] - starts[i] < 1
    THEN [yielded |-> <<>>, error |-> "QueryError"]
    ELSE generator_exit(
             search_exons(mafiter, d, src, target, starts, ends, 1), pep479)

\* the state of self._mafiter after a search or get_spliced consumed to its
\* end: the generator has finished once it has raised
mafiter_after(mafiter, out) ==
    IF mafiter = "finished" \/ out.error \in {"ParseError", "RuntimeError"}
    THEN "finished"
    ELSE mafiter

(***************************************************************************)
(* MafIndex.get_spliced.                                                   *)
(***************************************************************************)
\* Seq.reverse_complement of Bio.Seq
complement(c) ==
    CASE c = "A" -> "T"
      [] c = "T" -> "A"
      [] c = "C" -> "G"
      [] c = "G" -> "C"
      [] OTHER -> c

reverse_complement(text) ==
    [i \in 1 .. Len(text) |-> complement(text[Len(text) + 1 - i])]

\* index in the block of the last record of the target, 0 if there is none
RECURSIVE LastTarget(_, _, _)
LastTarget(block, target, i) ==
    IF i < 1 THEN 0
    ELSE IF block[i].id = target THEN i
    ELSE LastTarget(block, target, i - 1)

\* split_by_position[seqrec.id][pos] = "" for every record of the block and
\* every pos in range(rec_start, rec_end + 1)
blank_positions(split, multiseq, rec_start, rec_end) ==
    [n \in DOMAIN split |->
        IF \E j \in DOMAIN multiseq : multiseq[j].id = n
        THEN [p \in DOMAIN split[n] \cup (rec_start .. rec_end) |->
                 IF p \in rec_start .. rec_end THEN <<>> ELSE split[n][p]]
        ELSE split[n]]

\* the inner loop over the records for one column, from record j on
RECURSIVE append_column(_, _, _, _, _)
append_column(split, multiseq, gapped_pos, real_pos, j) ==
    IF j > Len(multiseq) THEN split
    ELSE append_column(
            [split EXCEPT ![multiseq[j].id][real_pos] =
                              @ \o <<multiseq[j].text[gapped_pos]>>],
            multiseq, gapped_pos, real_pos, j + 1)

\* the loop over the columns with real_pos incremented before the symbols of
\* the column are appended instead of after
RECURSIVE fill_columns_increment_first(_, _, _, _, _, _)
fill_columns_increment_first(split, multiseq, target, gapped_pos, real_pos, rec_end) ==
    IF gapped_pos > Len(multiseq[1].text) THEN split
    ELSE LET track_val ==
                 multiseq[LastTarget(multiseq, target, Len(multiseq))]
                     .text[gapped_pos]
             pos == IF track_val # "-" /\ real_pos < rec_end
                    THEN real_pos + 1 ELSE real_pos
         IN  fill_columns_increment_first(
                 append_column(split, multiseq, gapped_pos, pos, 1),
                 multiseq, target, gapped_pos + 1, pos, rec_end)

\* the loop over the columns of one block, from column gapped_pos on
RECURSIVE fill_columns(_, _, _, _, _, _)
fill_columns(split, multiseq, target, gapped_pos, real_pos, rec_end) ==
    IF gapped_pos > Len(multiseq[1].text) THEN split
    ELSE LET track_val ==
                 multiseq[LastTarget(multiseq, target, Len(multiseq))]
                     .text[gapped_pos]
         IN  fill_columns(
                 append_column(split, multiseq, gapped_pos, real_pos, 1),
                 multiseq, target, gapped_pos + 1,
                 IF track_val # "-" /\ real_pos < rec_end
                 THEN real_pos + 1 ELSE real_pos,
                 rec_end)

\* one iteration of the loop over the fetched blocks.  st holds
\* split_by_position, total_rec_length, ref_first_strand (0 for None) and
\* the error raised so far.
split_block(st, multiseq, target) ==
    LET i == FirstTarget(multiseq, target, 1) IN
    IF i = 0 THEN [st EXCEPT !.error = "TargetNotInBundle"]
    ELSE LET seqrec == multiseq[i]
             rec_start == seqrec.start
             rec_end == rec_start + seqrec.size - 1
         IN  IF st.strand = 0 /\ seqrec.strand \notin {1, -1}
             THEN [st EXCEPT !.error = "BadStrand"]
             ELSE IF st.strand # 0 /\ st.strand # seqrec.strand
             THEN [st EXCEPT !.error = "StrandMismatch"]
             ELSE [split |-> fill_columns(
                                 blank_positions(st.split, multiseq,
                                                 rec_start, rec_end),
                                 multiseq, target, 1, rec_start, rec_end),
                   total |-> st.total + seqrec.size,
                   strand |-> seqrec.strand,
                   error |-> "none"]

RECURSIVE split_blocks(_, _, _, _)
split_blocks(st, fetched, target, k) ==
    IF k > Len(fetched) \/ st.error # "none" THEN st
    ELSE split_blocks(split_block(st, fetched[k], target), fetched, target,
                      k + 1)

\* the text appended for one position of an exon, with one filler symbol
\* wherever the sequence has no fragment
splice_piece_one_filler(split, realpos_to_len, seqid, target, real_pos) ==
    LET filler_char == IF seqid = target THEN "N" ELSE "-" IN
    IF real_pos \in DOMAIN split[seqid] THEN split[seqid][real_pos]
    ELSE <<filler_char>>

\* the text appended for one position of an exon
splice_piece(split, realpos_to_len, seqid, target, real_pos) ==
    LET filler_char == IF seqid = target THEN "N" ELSE "-" IN
    IF real_pos \in DOMAIN split[seqid] THEN split[seqid][real_pos]
    ELSE IF real_pos \in DOMAIN realpos_to_len
    THEN Repeat(filler_char, realpos_to_len[real_pos])
    ELSE <<filler_char>>

\* the loop over range(exonstart, exonend), from real_pos on
RECURSIVE splice_exon(_, _, _, _, _, _)
splice_exon(split, realpos_to_len, seqid, target, real_pos, exonend) ==
    IF real_pos >= exonend THEN <<>>
    ELSE splice_piece(split, realpos_to_len, seqid, target, real_pos)
         \o splice_exon(split, realpos_to_len, seqid, target, real_pos + 1,
                        exonend)

\* the loop over the exons, from exon i on
RECURSIVE splice_exons(_, _, _, _, _, _, _)
splice_exons(split, realpos_to_len, seqid, target, starts, ends, i) ==
    IF i > Len(starts) THEN <<>>
    ELSE splice_exon(split, realpos_to_len, seqid, target, starts[i], ends[i])
         \o splice_exons(split, realpos_to_len, seqid, target, starts, ends,
                         i + 1)

\* expected_letters taken from the first exon only
expected_letters_first_exon(starts, ends) == ends[1] - starts[1]

expected_letters(starts, ends) ==
    SumSeq([i \in 1 .. Min(Len(starts), Len(ends)) |-> ends[i] - starts[i]])

\* a get_spliced that raised
splice_error(error) == [error |-> error, strand |-> 0, subseq |-> <<>>]

\* the two checks on subseq before the alignment is built
splice_checked(subseq, strand, target, expected) ==
    IF Len(Ungap(subseq[target])) # expected
    THEN splice_error("LetterCountMismatch")
    ELSE IF \E seqid \in DOMAIN subseq : Len(subseq[seqid]) # Len(subseq[target])
    THEN splice_error("LengthMismatch")
    ELSE [error |-> "none", strand |-> strand, subseq |-> subseq]

\* realpos_to_len: the length of the reference fragments longer than one
realpos_to_len(ref_split) ==
    [pos \in {p \in DOMAIN ref_split : Len(ref_split[p]) > 1} |->
        Len(ref_split[pos])]

\* get_spliced from the check of the number of positions on: st is the
\* outcome of the loop over the fetched blocks
splice_stitched(st, target, starts, ends) ==
    IF st.error # "none" THEN splice_error(st.error)
    ELSE IF Cardinality(DOMAIN st.split[target]) # st.total
    THEN splice_error("PositionCountMismatch")
    ELSE splice_checked(
             [seqid \in DOMAIN st.split |->
                 splice_exons(st.split, realpos_to_len(st.split[target]),
                              seqid, target, starts, ends, 1)],
             st.strand, target, expected_letters(starts, ends))

\* find the union of all IDs in these alignments
all_seqnames(fetched) ==
    UNION {{fetched[k][j].id : j \in DOMAIN fetched[k]} : k \in DOMAIN fetched}

\* get_spliced once the blocks are fetched
splice_fetched(fetched, target, starts, ends) ==
    IF Len(fetched) = 0
    THEN [error |-> "none", strand |-> 0,
          subseq |-> [n \in {target} |->
                         Repeat("N", expected_letters(starts, ends))]]
    ELSE splice_stitched(
             split_blocks([split |-> [n \in all_seqnames(fetched) |-> <<>>],
                           total |-> 0, strand |-> 0, error |-> "none"],
                          fetched, target, 1),
             target, starts, ends)

\* get_spliced on the outcome of search
splice_found(found, target, starts, ends) ==
    IF found.error # "none" THEN splice_error(found.error)
    ELSE splice_fetched([k \in DOMAIN found.yielded |-> found.yielded[k].block],
                        target, starts, ends)

\* get_spliced up to the two checks on subseq: the error raised if any, the
\* strand of the reference (0: no block fetched) and subseq, the spliced
\* text of every sequence before the strand is applied
splice(mafiter, pep479, d, src, target, starts, ends) ==
    splice_found(search(mafiter, pep479, d, src, target, starts, ends),
                 target, starts, ends)

\* the alignment built from subseq for the strand asked for
stranded(sp, strand) ==
    IF sp.error # "none" THEN [error |-> sp.error, records |-> <<>>]
    ELSE IF sp.strand = 0 THEN [error |-> "none", records |-> sp.subseq]
    ELSE [error |-> "none",
          records |-> [seqid \in DOMAIN sp.subseq |->
                          IF strand = sp.strand THEN sp.subseq[seqid]
                          ELSE reverse_complement(sp.subseq[seqid])]]

\* the alignment built from subseq whatever the strand asked for
stranded_any(sp, strand) ==
    IF sp.error # "none" THEN [error |-> sp.error, records |-> <<>>]
    ELSE [error |-> "none", records |-> sp.subseq]

\* get_spliced that returns the spliced texts whatever the strand asked for
get_spliced_any_strand(mafiter, pep479, d, src, target, starts, ends, strand) ==
    IF strand \notin {1, -1} THEN [error |-> "QueryError", records |-> <<>>]
    ELSE stranded_any(splice(mafiter, pep479, d, src, target, starts, ends),
                      strand)

\* get_spliced(starts, ends, strand): the error raised, or the text of every
\* record of the returned alignment by record id
get_spliced(mafiter, pep479, d, src, target, starts, ends, strand) ==
    IF strand \notin {1, -1} THEN [error |-> "QueryError", records |-> <<>>]
    ELSE stranded(splice(mafiter, pep479, d, src, target, starts, ends),
                  strand)

(***************************************************************************)
(* Calls on a constructed index object.                                    *)
(***************************************************************************)
\* the objects a call can be made on now: the program is single-threaded,
\* a call starts when no other is in progress
Callable == IF call.op = "none" THEN {who \in Objects : Usable(who)} ELSE {}

\* self._target_seqname, self._record_count and self._mafiter of the object
TargetOf(who) == IF who = "build" THEN BuildTarget ELSE reader.target_seqname

RecordCountOf(who) ==
    IF who = "build" THEN build.insert_count ELSE reader.record_count
MafIterOf(who) == IF who = "build" THEN build.mafiter ELSE reader.mafiter

\* half-open query intervals (start, end) of the calls
Intervals == {<<0, 3>>, <<0, 2>>, <<2, 3>>, <<4, 7>>, <<8, 10>>, <<3, 3>>,
              <<HighStart, HighStart + 2>>}

IntervalLists == UNION {[1 .. n -> Intervals] : n \in 1 .. MaxExons}

Starts(list) == [i \in DOMAIN list |-> list[i][1]]
Ends(list) == [i \in DOMAIN list |-> list[i][2]]

\* the interval from the smallest start to one past the largest end of the
\* stored entries
FullSpan(d) ==
    LET lo == CHOOSE s \in {d.rows[i].start : i \in DOMAIN d.rows} :
                  \A i \in DOMAIN d.rows : s <= d.rows[i].start
        hi == CHOOSE e \in {d.rows[i].end : i \in DOMAIN d.rows} :
                  \A i \in DOMAIN d.rows : e >= d.rows[i].end
    IN  <<lo, hi + 1>>

SearchLists == IntervalLists \cup (IF db.rows = <<>> THEN {} ELSE {<<FullSpan(db)>>})

\* the call leaves self._mafiter of the object in state m
SetMafIter(who, m) ==
    /\ build' = IF who = "build" THEN [build EXCEPT !.mafiter = m] ELSE build
    /\ reader' = IF who = "reader" THEN [reader EXCEPT !.mafiter = m]
                 ELSE reader

\* whether the interpreter turns a StopIteration inside a generator into a
\* RuntimeError (PEP 479): both kinds of interpreter run the code; the choice
\* has an effect only on a call that finds self._mafiter finished
Pep479(who) == IF MafIterOf(who) = "finished" THEN BOOLEAN ELSE {TRUE}

\* the end of a call on the object: its outcome goes to the caller and
\* self._mafiter is left as the call left it
Deliver(who, op, list, strand, out) ==
    /\ call' = [op |-> op, who |-> who, starts |-> Starts(list),
                ends |-> Ends(list), strand |-> strand, error |-> out.error,
                yielded |-> out.yielded, records |-> out.records,
                length |-> 0]
    /\ SetMafIter(who, mafiter_after(MafIterOf(who), out))

\* the outcome of search as the consumer of the generator sees it
search_outcome(out) ==
    [error |-> out.error, yielded |-> out.yielded, records |-> <<>>]

\* the outcome of get_spliced as its caller sees it
get_spliced_outcome(out) ==
    [error |-> out.error, yielded |-> <<>>, records |-> out.records]

\* search(starts, ends) on the object, consumed to its end
Search(who, list) ==
    /\ Usable(who)
    /\ call.op = "none"
    /\ \E pep479 \in Pep479(who) :
          Deliver(who, "search", list, 0,
                  search_outcome(search(MafIterOf(who), pep479, db, source,
                                        TargetOf(who), Starts(list),
                                        Ends(list))))
    /\ UNCHANGED <<source, db, binq, procs, newline>>

GetSpliced(who, list, strand) ==
    /\ Usable(who)
    /\ call.op = "none"
    /\ \E pep479 \in Pep479(who) :
          Deliver(who, "get_spliced", list, strand,
                  get_spliced_outcome(get_spliced(MafIterOf(who), pep479, db,
                                                  source, TargetOf(who),
                                                  Starts(list), Ends(list),
                                                  strand)))
    /\ UNCHANGED <<source, db, binq, procs, newline>>

\* len(index): __len__ returns self._record_count
Length(who) ==
    /\ Usable(who)
    /\ call.op = "none"
    /\ call' = [op |-> "len", who |-> who, starts |-> <<>>, ends |-> <<>>,
                strand |-> 0, error |-> "none", yielded |-> <<>>,
                records |-> <<>>, length |-> RecordCountOf(who)]
    /\ UNCHANGED <<source, db, build, reader, binq, procs, newline>>

\* the caller is done with the outcome of the call
Return ==
    /\ call.op # "none"
    /\ call' = NoCall
    /\ UNCHANGED <<source, db, build, reader, binq, procs, newline>>

NextQuery ==
    \/ \E ic \in BOOLEAN : BuildStart(ic)
    \/ BuildBatch
    \/ BuildFail
    \/ BuildFinish
    \/ \E who \in Callable, list \in SearchLists : Search(who, list)
    \/ \E who \in Callable, list \in IntervalLists, strand \in {1, -1} :
          GetSpliced(who, list, strand)
    \/ Return

SpecQuery == Init /\ [][NextQuery]_vars

(***************************************************************************)
(* Sources the builder accepts and the parser does not, sources edited     *)
(* after the build, and searches the consumer abandons: the object that    *)
(* built the store and an object constructed on the completed store for    *)
(* the same file and reference, used side by side.                         *)
(***************************************************************************)
\* the 's' line of alt has no text field: __maf_indexer reads the line of the
\* reference only, MafIterator raises on the line of alt
BlkBadLine == << SeqRec("ref", 4, 3, 1, <<"A", "C", "T">>),
                 SeqRec("alt", 9, 3, 1, <<>>) >>

FaultCatalog == {BlkSimple, BlkGaps, BlkBadLine, BlkNoRef}

FaultSources == UNION {[1 .. n -> FaultCatalog] : n \in 0 .. MaxBlocks}

InitFault ==
    /\ source \in FaultSources
    /\ db = NoDb
    /\ build = NoBuild
    /\ reader = NoReader
    /\ call = NoCall
    /\ binq = NoBinq
    /\ procs = NoProcs
    /\ newline = 1

\* BlkSimple with another start on the line of the reference, and with
\* another id on it: the bytes of the block are as many as before
BlkMoved == << SeqRec("ref", 1, 3, 1, <<"A", "C", "G">>),
               SeqRec("alt", 7, 3, 1, <<"A", "C", "C">>) >>
BlkUnref == << SeqRec("oth", 0, 3, 1, <<"A", "C", "G">>),
               SeqRec("alt", 7, 3, 1, <<"A", "C", "C">>) >>

Edits == {BlkMoved, BlkUnref}

\* the environment rewrites block k of the file in place after the build
EditSource(k, block) ==
    /\ build.pc = "ready"
    /\ call.op = "none"
    /\ k \in DOMAIN source
    /\ source[k] # block
    /\ BlockBytes(source[k]) = BlockBytes(block)
    /\ source' = [source EXCEPT ![k] = block]
    /\ UNCHANGED <<db, build, reader, call, binq, procs, newline>>

\* the first n elements of a sequence
Prefix(seq, n) == [i \in 1 .. n |-> seq[i]]

\* search(starts, ends) on the object of which the consumer takes n blocks
\* and lets the generator go: the body of search has run up to its n-th
\* yield (not at all for n = 0), self._mafiter stays suspended at its yield
SearchAbandoned(who, list, n) ==
    /\ Usable(who)
    /\ call.op = "none"
    /\ LET out == search(MafIterOf(who), TRUE, db, source, TargetOf(who),
                         Starts(list), Ends(list))
       IN  /\ n <= Len(out.yielded)
           /\ call' = [op |-> "abandoned", who |-> who,
                       starts |-> Starts(list), ends |-> Ends(list),
                       strand |-> 0, error |-> "none",
                       yielded |-> Prefix(out.yielded, n),
                       records |-> <<>>, length |-> 0]
    /\ UNCHANGED <<source, db, build, reader, binq, procs, newline>>

FaultIntervals == {<<0, 3>>, <<2, 3>>, <<4, 7>>, <<3, 3>>}

FaultLists == UNION {[1 .. n -> FaultIntervals] : n \in 1 .. MaxExons}

NextFault ==
    \/ \E ic \in BOOLEAN : BuildStart(ic)
    \/ BuildBatch
    \/ BuildFail
    \/ BuildFinish
    \/ Open(BuildFile, BuildTarget)
    \/ \E k \in 1 .. MaxBlocks, block \in Edits : EditSource(k, block)
    \/ \E who \in Callable, list \in FaultLists : Search(who, list)
    \/ \E who \in Callable, list \in FaultLists, n \in 0 .. MaxBlocks :
          SearchAbandoned(who, list, n)
    \/ \E who \in Callable, list \in FaultLists, strand \in {1, -1} :
          GetSpliced(who, list, strand)
    \/ \E who \in Callable : Length(who)
    \/ Return

SpecFault == InitFault /\ [][NextFault]_vars

(***************************************************************************)
(* Two index objects on one store and one source, each running search step *)
(* by step (the SELECT of an exon, the seek and the parse of _get_record,  *)
(* the check and the yield), the steps of the two interleaved.             *)
(***************************************************************************)
InterleaveCatalog == {BlkSimple, BlkGaps, BlkOver}

InterleaveSources == UNION {[1 .. n -> InterleaveCatalog] : n \in 0 .. MaxBlocks}

InitInterleave ==
    /\ source \in InterleaveSources
    /\ db = NoDb
    /\ build = NoBuild
    /\ reader = NoReader
    /\ call = NoCall
    /\ binq = NoBinq
    /\ procs = NoProcs
    /\ newline = 1

InterleaveLists == {<< <<0, 3>> >>, << <<2, 7>> >>, << <<4, 7>> >>,
                    << <<3, 3>> >>, << <<4, 7>>, <<0, 3>> >>}

\* one handle for all index objects
SharedHandle(who) == "build"

\* the handle an object seeks and reads: self._maf_fp, which its own
\* constructor opened
OwnHandle(who) == who

\* the loop over the exons from exon i on, up to the first exon whose SELECT
\* returns rows
RECURSIVE next_rows(_, _, _, _)
next_rows(d, starts, ends, i) ==
    IF i > Min(Len(starts), Len(ends)) THEN [exon |-> i, rows |-> <<>>]
    ELSE LET rows == select_rows(d, starts[i], ends[i])
         IN  IF rows # <<>> THEN [exon |-> i, rows |-> rows]
             ELSE next_rows(d, starts, ends, i + 1)

\* the first next() on search(starts, ends): the checks of the arguments
StepStart(who, list) ==
    /\ Usable(who)
    /\ call.op = "none"
    /\ procs[who].pc = "idle"
    /\ LET p == [procs[who] EXCEPT !.starts = Starts(list),
                                   !.ends = Ends(list)]
       IN  procs' = [procs EXCEPT ![who] =
                IF \E i \in DOMAIN list : list[i][2] - list[i][1] < 1
                THEN [p EXCEPT !.pc = "done", !.error = "QueryError"]
                ELSE LET nx == next_rows(db, p.starts, p.ends, 1)
                     IN  [p EXCEPT !.exon = nx.exon, !.rows = nx.rows,
                                   !.pc = IF nx.rows = <<>> THEN "done"
                                          ELSE "seek"]]
    /\ UNCHANGED <<source, db, build, reader, call, binq, newline>>

\* self._maf_fp.seek(offset)
StepSeek(who) ==
    /\ procs[who].pc = "seek"
    /\ procs' = [procs EXCEPT ![OwnHandle(who)].cursor = Head(procs[who].rows)[3],
                              ![who].pc = "parse"]
    /\ UNCHANGED <<source, db, build, reader, call, binq, newline>>

\* next(self._mafiter): the block parsed from the position of the handle,
\* which is left behind the block, and the check of its coordinates
StepParse(who) ==
    /\ procs[who].pc = "parse"
    /\ LET row == Head(procs[who].rows)
           at == procs[OwnHandle(who)].cursor
           fetched == get_record(source, at)
           error == IF MafIterOf(who) = "finished" THEN "StopIteration"
                    ELSE IF parse_error(fetched) THEN "ParseError"
                    ELSE IF ~fetched_matches(fetched, TargetOf(who), row[1],
                                             row[2])
                    THEN "CoordinateMismatch"
                    ELSE "none"
       IN  /\ procs' = [procs EXCEPT
                  ![OwnHandle(who)].cursor =
                      IF error = "StopIteration" THEN at
                      ELSE at + BlockBytes(fetched),
                  ![who].fetched = fetched,
                  ![who].error = error,
                  ![who].pc = IF error = "none" THEN "yield" ELSE "done"]
           /\ SetMafIter(who, IF error \in {"StopIteration", "ParseError"}
                              THEN "finished" ELSE MafIterOf(who))
    /\ UNCHANGED <<source, db, call, binq, newline>>

\* yield fetched, and on to the next row or exon
StepYield(who) ==
    /\ procs[who].pc = "yield"
    /\ LET row == Head(procs[who].rows)
           p == [procs[who] EXCEPT
                    !.yielded = @ \o <<[start |-> row[1], end |-> row[2],
                                        offset |-> row[3],
                                        block |-> procs[who].fetched]>>,
                    !.rows = Tail(@)]
       IN  procs' = [procs EXCEPT ![who] =
                IF p.rows # <<>> THEN [p EXCEPT !.pc = "seek"]
                ELSE LET nx == next_rows(db, p.starts, p.ends, p.exon + 1)
                     IN  [p EXCEPT !.exon = nx.exon, !.rows = nx.rows,
                                   !.pc = IF nx.rows = <<>> THEN "done"
                                          ELSE "seek"]]
    /\ UNCHANGED <<source, db, build, reader, call, binq, newline>>

\* the consumer lets go of the generator that has ended
StepEnd(who) ==
    /\ procs[who].pc = "done"
    /\ procs' = [procs EXCEPT ![who] =
                    [NoProc EXCEPT !.cursor = procs[who].cursor]]
    /\ UNCHANGED <<source, db, build, reader, call, binq, newline>>

NextInterleave ==
    \/ \E ic \in BOOLEAN : BuildStart(ic)
    \/ BuildBatch
    \/ BuildFinish
    \/ Open(BuildFile, BuildTarget)
    \/ \E who \in Objects, list \in InterleaveLists : StepStart(who, list)
    \/ \E who \in Objects : StepSeek(who)
    \/ \E who \in Objects : StepParse(who)
    \/ \E who \in Objects : StepYield(who)
    \/ \E who \in Objects : StepEnd(who)

SpecInterleave == InitInterleave /\ [][NextInterleave]_vars

(***************************************************************************)
(* get_spliced over blocks with gaps in the reference, blocks that lack a  *)
(* sequence other blocks have, and exons that begin and end inside blocks. *)
(***************************************************************************)
\* a sequence that no other block has
BlkLone == << SeqRec("ref", 8, 2, 1, <<"G", "T">>),
              SeqRec("new", 0, 2, 1, <<"G", "A">>) >>

SpliceCatalog == {BlkSimple, BlkGaps, BlkDup, BlkLone}

SpliceSources == UNION {[1 .. n -> SpliceCatalog] : n \in 0 .. MaxBlocks}

InitSplice ==
    /\ source \in SpliceSources
    /\ db = NoDb
    /\ build = NoBuild
    /\ reader = NoReader
    /\ call = NoCall
    /\ binq = NoBinq
    /\ procs = NoProcs
    /\ newline = 1

SpliceIntervals == {<<0, 3>>, <<2, 5>>, <<4, 5>>, <<5, 6>>, <<6, 7>>, <<4, 7>>,
                    <<8, 10>>, <<14, 16>>}

SpliceLists == UNION {[1 .. n -> SpliceIntervals] : n \in 1 .. MaxExons}

NextSplice ==
    \/ \E ic \in BOOLEAN : BuildStart(ic)
    \/ BuildBatch
    \/ BuildFinish
    \/ \E who \in Callable, list \in SpliceLists, strand \in {1, -1} :
          GetSpliced(who, list, strand)
    \/ Return

SpecSplice == InitSplice /\ [][NextSplice]_vars

(***************************************************************************)
(* Build, reopen and queries over sources whose lines end in LF or in      *)
(* CR LF.                                                                  *)
(***************************************************************************)
LineCatalog == {BlkSimple, BlkGaps, BlkLone}

LineSources == UNION {[1 .. n -> LineCatalog] : n \in 0 .. MaxBlocks}

Newlines == {1, 2}

InitLines ==
    /\ source \in LineSources
    /\ db = NoDb
    /\ build = NoBuild
    /\ reader = NoReader
    /\ call = NoCall
    /\ binq = NoBinq
    /\ procs = NoProcs
    /\ newline \in Newlines

LineIntervals == {<<0, 3>>, <<4, 7>>, <<8, 10>>}

LineLists == UNION {[1 .. n -> LineIntervals] : n \in 1 .. MaxExons}

NextLines ==
    \/ \E ic \in BOOLEAN : BuildStart(ic)
    \/ BuildBatch
    \/ BuildFinish
    \/ Open(BuildFile, BuildTarget)
    \/ \E who \in Callable, list \in LineLists : Search(who, list)
    \/ \E who \in Callable, list \in LineLists : GetSpliced(who, list, 1)
    \/ \E who \in Callable : Length(who)
    \/ Return

SpecLines == InitLines /\ [][NextLines]_vars

(***************************************************************************)
(* The two bin functions on their own.                                     *)
(***************************************************************************)
\* coordinates at and next to the boundaries of the bin levels
Coords == {0, 1, 2 ^ 17 - 1, 2 ^ 17, 2 ^ 20 - 1, 2 ^ 20, 2 ^ 23 - 1, 2 ^ 23,
           2 ^ 26 - 1, 2 ^ 26, 2 ^ 29 - 1, 2 ^ 29, 2 ^ 30 - 1, 2 ^ 30,
           2 ^ 30 + 2 ^ 26 - 1, 2 ^ 30 + 2 ^ 26, 2 ^ 30 + 2 ^ 26 + 1}

InitBin ==
    /\ source = <<>>
    /\ db = NoDb
    /\ build = NoBuild
    /\ reader = NoReader
    /\ call = NoCall
    /\ \E s \in Coords, e \in Coords :
          /\ s < e
          /\ binq = [NoBinq EXCEPT !.start = s, !.end = e]
    /\ procs = NoProcs
    /\ newline = 1

ComputeBins ==
    /\ ~binq.done
    /\ binq' = [binq EXCEPT !.done = TRUE,
                            !.smallest = ucscbin(binq.start, binq.end),
                            !.candidates = region2bin(binq.start, binq.end)]
    /\ UNCHANGED <<source, db, build, reader, call, procs, newline>>

NextBin == ComputeBins

SpecBin == InitBin /\ [][NextBin]_vars

(***************************************************************************)
(* The whole program: the constructor on a new or an existing store, the   *)
(* edits of the store and the calls (which apply the two bin functions).   *)
(***************************************************************************)
Next ==
    \/ \E ic \in BOOLEAN : BuildStart(ic)
    \/ BuildBatch
    \/ BuildFail
    \/ BuildFinish
    \/ \E f \in Files, t \in Targets : Open(f, t)
    \/ \E n \in StoredCounts : TamperRecordCount(n)
    \/ \E v \in StoredVersions : TamperVersion(v)
    \/ \E who \in Callable, list \in SearchLists : Search(who, list)
    \/ \E who \in Callable, list \in IntervalLists, strand \in {1, -1} :
          GetSpliced(who, list, strand)
    \/ Return

Spec == Init /\ [][Next]_vars

(***************************************************************************)
(* Properties.                                                             *)
(***************************************************************************)
\* the (start, end, offset) rows of the store
StoredRows == {<<db.rows[i].start, db.rows[i].end, db.rows[i].offset>> :
                  i \in DOMAIN db.rows}

\* rows whose inclusive span [start, end] overlaps the half-open [s, e)
Overlapping(s, e) == {r \in StoredRows : r[2] >= s /\ e - 1 >= r[1]}

YieldedRow(y) == <<y.start, y.end, y.offset>>

\* (start, inclusive end) of the reference record of a block
RefSpan(block) ==
    LET rec == block[FirstTarget(block, BuildTarget, 1)]
    IN  <<rec.start, rec.start + rec.size - 1>>

\* the call has equally many starts and ends and every exon has end > start
ValidExons ==
    /\ Len(call.starts) = Len(call.ends)
    /\ \A i \in DOMAIN call.starts : call.ends[i] > call.starts[i]

\* sum of end - start over the exons of the call
ExonLetters ==
    SumSeq([i \in DOMAIN call.starts |-> call.ends[i] - call.starts[i]])

\* C1: for every interval [s,e) with 0 <= s < e, also at and above 2^29 and
\* 2^30, the bin returned by _ucscbin(s,e) is one of the bins returned by
\* _region2bin(s,e).
C1_SmallestBinIsCandidate ==
    binq.done => binq.smallest \in binq.candidates

\* C2: a search whose single interval is the full coordinate span of the
\* indexed source yields every stored entry exactly once, each yielded block
\* having the reference start and inclusive end of its entry.
C2_FullSpanYieldsEveryBlock ==
    (/\ call.op = "search"
     /\ db.rows # <<>>
     /\ call.starts = <<FullSpan(db)[1]>>
     /\ call.ends = <<FullSpan(db)[2]>>)
    => /\ call.error = "none"
       /\ Len(call.yielded) = Len(db.rows)
       /\ \A r \in StoredRows :
             \E k \in DOMAIN call.yielded :
                /\ YieldedRow(call.yielded[k]) = r
                /\ RefSpan(call.yielded[k].block) = <<r[1], r[2]>>
                /\ \A m \in DOMAIN call.yielded :
                      YieldedRow(call.yielded[m]) = r => m = k

\* C3: the blocks yielded for the intervals of a search are exactly the
\* stored entries whose inclusive span [bStart, bEnd] has bEnd >= start and
\* endExclusive - 1 >= bStart; the bin filter removes none of them.
C3_YieldedAreTheOverlapping ==
    (call.op = "search" /\ call.error = "none")
    => /\ Len(call.yielded) =
             SumSeq([i \in DOMAIN call.starts |->
                        Cardinality(Overlapping(call.starts[i], call.ends[i]))])
       /\ \A i \in DOMAIN call.starts :
             \A r \in Overlapping(call.starts[i], call.ends[i]) :
                \E k \in DOMAIN call.yielded : YieldedRow(call.yielded[k]) = r
       /\ \A k \in DOMAIN call.yielded :
             \E i \in DOMAIN call.starts :
                YieldedRow(call.yielded[k])
                    \in Overlapping(call.starts[i], call.ends[i])

\* C4: for every list of query intervals the whole sequence of blocks
\* yielded by one search is in ascending order of (start, end, offset).
C4_YieldedInAscendingOrder ==
    call.op = "search"
    => \A j, k \in DOMAIN call.yielded :
          j < k => ~RowLess(YieldedRow(call.yielded[k]),
                            YieldedRow(call.yielded[j]))

\* the stored entries have pairwise disjoint spans and all blocks of the
\* source have the reference on the same strand
DisjointOneStrand ==
    /\ \A i, j \in DOMAIN db.rows :
          i # j => \/ db.rows[i].end < db.rows[j].start
                   \/ db.rows[j].end < db.rows[i].start
    /\ \A i, j \in DOMAIN source :
          source[i][FirstTarget(source[i], BuildTarget, 1)].strand
              = source[j][FirstTarget(source[j], BuildTarget, 1)].strand

\* C5: over an index of blocks with pairwise disjoint reference spans on one
\* strand, get_spliced of valid exons returns an alignment whose reference
\* text without gaps has sum(end - start) letters, also when several exons
\* overlap the same block.
C5_SplicedReferenceLength ==
    (call.op = "get_spliced" /\ ValidExons /\ DisjointOneStrand)
    => /\ call.error = "none"
       /\ Len(Ungap(call.records[BuildTarget])) = ExonLetters

\* no stored entry overlaps an exon of the call
NoCoverage ==
    \A i \in DOMAIN call.starts :
        Overlapping(call.starts[i], call.ends[i]) = {}

\* C6: when no indexed block overlaps any of the (valid) requested exons,
\* get_spliced returns without error, for either strand, exactly one record,
\* of the reference id, whose text is "N" repeated sum(end - start) times.
C6_NoCoverageGivesFiller ==
    (call.op = "get_spliced" /\ ValidExons /\ NoCoverage)
    => /\ call.error = "none"
       /\ DOMAIN call.records = {BuildTarget}
       /\ call.records[BuildTarget] = [i \in 1 .. ExonLetters |-> "N"]

C6_Witness ==
    /\ call.op = "get_spliced"
    /\ call.strand = -1
    /\ Len(call.starts) = 2
    /\ ValidExons
    /\ db.rows # <<>>
    /\ NoCoverage
    /\ call.error = "none"
    /\ call.records[BuildTarget] = <<"N", "N", "N", "N", "N">>

\* C7: get_spliced with the single exon equal to the reference span of one
\* block, on the strand of that block's reference, returns for every
\* sequence id of the block the aligned text of that sequence.
C7_WholeBlockReproduced ==
    \A b \in DOMAIN source :
        LET rec == source[b][FirstTarget(source[b], BuildTarget, 1)] IN
        (/\ call.op = "get_spliced"
         /\ call.starts = <<rec.start>>
         /\ call.ends = <<rec.start + rec.size>>
         /\ call.strand = rec.strand)
        => /\ call.error = "none"
           /\ \A j \in DOMAIN source[b] :
                 /\ source[b][j].id \in DOMAIN call.records
                 /\ call.records[source[b][j].id] = source[b][j].text

\* every block of the source has the reference on the + strand
PlusStrandIndex ==
    \A i \in DOMAIN source :
        source[i][FirstTarget(source[i], BuildTarget, 1)].strand = 1

\* C8: over an index whose reference strand is +1, get_spliced with
\* strand=+1 returns the spliced texts unreversed and get_spliced of the
\* same exons with strand=-1 returns the reverse complement of each of them.
C8_MinusStrandIsReverseComplement ==
    (call.op = "get_spliced" /\ call.error = "none" /\ PlusStrandIndex)
    => LET sp == splice("ready", TRUE, db, source, BuildTarget, call.starts,
                        call.ends)
           minus == get_spliced("ready", TRUE, db, source, BuildTarget,
                                call.starts, call.ends, -1)
       IN  /\ minus.error = "none"
           /\ DOMAIN minus.records = DOMAIN sp.subseq
           /\ \A id \in DOMAIN sp.subseq :
                 minus.records[id] = reverse_complement(sp.subseq[id])
           /\ call.strand = 1 => call.records = sp.subseq
           /\ call.strand = -1 => call.records = minus.records

C8_Witness ==
    /\ call.op = "get_spliced"
    /\ call.strand = -1
    /\ call.error = "none"
    /\ PlusStrandIndex
    /\ "alt" \in DOMAIN call.records
    /\ call.records["alt"] = <<"G", "G", "T">>

\* the conditions under which an open of the store for maf_file and
\* target_seqname is accepted
OpenAccepted(maf_file, target_seqname) ==
    /\ db.has_meta
    /\ db.version = MAFINDEX_VERSION
    /\ db.filename = maf_file
    /\ db.target_seqname = target_seqname
    /\ db.record_count # SENTINEL
    /\ Cardinality(DOMAIN db.rows) = db.record_count

\* C9: an open of an existing store succeeds only if the stored version is
\* the engine version, the stored file and reference id are the requested
\* ones, the stored record count is not the sentinel and equals the number
\* of stored entries; otherwise the open fails and no index object results
\* (a stored version that differs: VersionMismatch, a stored file or
\* reference that differs: IdentityMismatch, the sentinel or a count that
\* differs: CorruptIndex).
C9_OpenValidatesStore ==
    [][\A f \in Files, t \in Targets :
          Open(f, t) =>
             /\ reader'.status = "ok" <=> OpenAccepted(f, t)
             /\ reader'.status = "ok" =>
                    reader'.record_count = Cardinality(DOMAIN db.rows)
             /\ (db.has_meta /\ db.version # MAFINDEX_VERSION)
                    => reader'.status = "VersionMismatch"
             /\ (/\ db.has_meta
                 /\ db.version = MAFINDEX_VERSION
                 /\ (db.filename # f \/ db.target_seqname # t))
                    => reader'.status = "IdentityMismatch"
             /\ (/\ db.has_meta
                 /\ db.version = MAFINDEX_VERSION
                 /\ db.filename = f
                 /\ db.target_seqname = t
                 /\ ~OpenAccepted(f, t))
                    => reader'.status = "CorruptIndex"]_vars

C9_Witness ==
    /\ build.pc = "ready"
    /\ db.version = MAFINDEX_VERSION
    /\ db.record_count # SENTINEL
    /\ db.record_count # Len(db.rows)
    /\ reader.maf_file = BuildFile
    /\ reader.target_seqname = BuildTarget
    /\ reader.status = "CorruptIndex"

\* C10: after a build that failed during the scan the stored record count is
\* the sentinel and every later open is rejected; the store never holds a
\* finalized record count unless all entries of the scan were committed.
C10_FailedBuildLeavesSentinel ==
    /\ build.pc = "failed" =>
          /\ db.has_meta
          /\ db.record_count = SENTINEL
          /\ \A f \in Files, t \in Targets :
                check_existing_db(db, f, t) # "ok"
    /\ (db.has_meta /\ db.record_count # SENTINEL) =>
          Len(db.rows) = Len(source)

\* the outcome of the call in progress had it been made on the object who
OutcomeOn(who) ==
    IF call.op = "search"
    THEN LET out == search(MafIterOf(who), TRUE, db, source, TargetOf(who),
                           call.starts, call.ends)
         IN  [error |-> out.error, yielded |-> out.yielded,
              records |-> <<>>, length |-> 0]
    ELSE IF call.op = "get_spliced"
    THEN LET out == get_spliced(MafIterOf(who), TRUE, db, source,
                                TargetOf(who), call.starts, call.ends,
                                call.strand)
         IN  [error |-> out.error, yielded |-> <<>>,
              records |-> out.records, length |-> 0]
    ELSE [error |-> "none", yielded |-> <<>>, records |-> <<>>,
          length |-> RecordCountOf(who)]

\* C11: while the object that built a store and an object constructed on
\* the completed store for the same file and reference both exist, every
\* search, get_spliced and len() made on one of them has the outcome the
\* same call has on the other.
C11_ReopenedEqualsBuilder ==
    (/\ call.op \in {"search", "get_spliced", "len"}
     /\ Usable("build")
     /\ Usable("reader"))
    => \A who \in Objects \ {call.who} :
          /\ call.error = OutcomeOn(who).error
          /\ call.yielded = OutcomeOn(who).yielded
          /\ call.records = OutcomeOn(who).records
          /\ call.length = OutcomeOn(who).length

\* C12: a search or get_spliced that fails with an error (invalid interval,
\* starts and ends of different lengths, fetched coordinates that disagree
\* with the index, or any other) has delivered no block and no alignment
\* to the caller before the failure.
C12_NoResultBeforeFailure ==
    (call.op \in {"search", "get_spliced"} /\ call.error # "none")
    => /\ call.yielded = <<>>
       /\ call.records = <<>>

\* C13: the handle on the alignment source that the constructor of an index
\* object opened is released once the object is gone, whether the caller
\* let go of it after use or the constructor raised in the checks of an
\* existing store or in the build.
C13_HandleReleased ==
    \A who \in Objects : Gone(who) => HandleOf(who) # "open"

\* C14: whatever calls were made on an index object before (searches
\* consumed to their end or abandoned, get_spliced calls), a search on it
\* yields the blocks, and ends the way, the same search does on an object
\* that has made no call yet, the store and the source being as they are.
C14_SearchIndependentOfEarlierCalls ==
    call.op = "search"
    => LET first == search("ready", TRUE, db, source, TargetOf(call.who),
                           call.starts, call.ends)
       IN  /\ call.yielded = first.yielded
           /\ call.error = first.error

\* s is an initial part of t
IsPrefix(s, t) == Len(s) <= Len(t) /\ \A i \in DOMAIN s : s[i] = t[i]

\* C15: when two index objects on the same completed store and the same
\* source, each with its own handle, run their searches with the steps
\* (seek, parse, yield) interleaved in any order, each yields exactly the
\* blocks its search yields when run alone, and neither raises a
\* coordinate mismatch.
C15_InterleavedSearchesAsAlone ==
    \A who \in Objects :
        procs[who].pc # "idle"
        => LET alone == search("ready", TRUE, db, source, TargetOf(who),
                               procs[who].starts, procs[who].ends)
           IN  /\ IsPrefix(procs[who].yielded, alone.yielded)
               /\ procs[who].error # "CoordinateMismatch"
               /\ procs[who].pc = "done"
                      => /\ procs[who].yielded = alone.yielded
                         /\ procs[who].error = alone.error

C15_Witness ==
    /\ procs["build"].pc = "done"
    /\ Len(procs["build"].yielded) = 2
    /\ procs["build"].error = "none"
    /\ procs["reader"].pc = "parse"
    /\ Len(procs["reader"].yielded) = 1
    /\ procs["reader"].cursor # procs["build"].cursor

\* the reference record of block b of the source
RefRec(b) == source[b][FirstTarget(source[b], BuildTarget, 1)]

\* number of letters (symbols other than the gap) among the first c symbols
Letters(text, c) == Len(Ungap(SubSeq(text, 1, c)))

\* the reference position of the last reference letter at or before column
\* c of block b (the first position of the block before its first letter)
KeyPreceding(b, c) ==
    LET n == Letters(RefRec(b).text, c)
    IN  RefRec(b).start + (IF n = 0 THEN 0 ELSE n - 1)

\* the reference position of the first reference letter at or after column
\* c of block b (the last position of the block after its last letter)
KeyFollowing(b, c) ==
    Min(RefRec(b).start + Letters(RefRec(b).text, c - 1),
        RefRec(b).start + RefRec(b).size - 1)

\* the symbols of text at the columns of the sequence cols, in that order
AtColumns(text, cols) == [i \in DOMAIN cols |-> text[cols[i]]]

\* the columns of block b keyed (by KeyPreceding, by KeyFollowing) with a
\* position of [s, e)
ColumnsPreceding(b, s, e) ==
    SelectSeq([c \in 1 .. Len(RefRec(b).text) |-> c],
              LAMBDA c : KeyPreceding(b, c) \in s .. (e - 1))
ColumnsFollowing(b, s, e) ==
    SelectSeq([c \in 1 .. Len(RefRec(b).text) |-> c],
              LAMBDA c : KeyFollowing(b, c) \in s .. (e - 1))

\* the ids of the records of block b are pairwise different
DistinctIds(b) ==
    \A i, j \in DOMAIN source[b] :
        source[b][i].id = source[b][j].id => i = j

\* the call is a get_spliced of one exon that lies inside the reference span
\* of block b, the only block of the index it overlaps, on the strand of
\* the reference of b
OneExonInside(b) ==
    /\ call.op = "get_spliced"
    /\ Len(call.starts) = 1
    /\ call.starts[1] < call.ends[1]
    /\ RefRec(b).start <= call.starts[1]
    /\ call.ends[1] <= RefRec(b).start + RefRec(b).size
    /\ Cardinality(Overlapping(call.starts[1], call.ends[1])) = 1
    /\ call.strand = RefRec(b).strand
    /\ DistinctIds(b)

\* C16: get_spliced of one exon inside a block returns, for every sequence
\* of the block, the symbols of the columns keyed with the positions of the
\* exon, where a column in which the reference has a gap is keyed with the
\* position of the last reference letter before the gap: an exon that ends
\* right after that letter includes the inserted columns, an exon that
\* starts at the next reference letter does not.
C16_GapColumnsGoToPrecedingPosition ==
    \A b \in DOMAIN source :
        OneExonInside(b)
        => /\ call.error = "none"
           /\ \A j \in DOMAIN source[b] :
                 /\ source[b][j].id \in DOMAIN call.records
                 /\ call.records[source[b][j].id] =
                        AtColumns(source[b][j].text,
                                  ColumnsPreceding(b, call.starts[1],
                                                   call.ends[1]))

\* C16 as amended: a column in which the reference has a gap is keyed with
\* the position of the next reference letter after the gap (with the last
\* position of the block when no reference letter follows): an exon that
\* starts at that next letter includes the inserted columns, an exon that
\* ends right after the letter before the gap does not.
C16_GapColumnsGoToFollowingPosition ==
    \A b \in DOMAIN source :
        OneExonInside(b)
        => /\ call.error = "none"
           /\ \A j \in DOMAIN source[b] :
                 /\ source[b][j].id \in DOMAIN call.records
                 /\ call.records[source[b][j].id] =
                        AtColumns(source[b][j].text,
                                  ColumnsFollowing(b, call.starts[1],
                                                   call.ends[1]))

C16_Witness ==
    /\ \E b \in DOMAIN source : source[b] = BlkGaps /\ OneExonInside(b)
    /\ call.starts = <<5>>
    /\ call.ends = <<6>>
    /\ call.error = "none"
    /\ call.records["ref"] = <<"-", "C">>
    /\ call.records["alt"] = <<"T", "C">>

\* the blocks of the source whose reference span holds position p
Covering(p) ==
    {b \in DOMAIN source :
        /\ RefRec(b).start <= p
        /\ p <= RefRec(b).start + RefRec(b).size - 1}

Filler(seqid) == IF seqid = BuildTarget THEN "N" ELSE "-"

\* what the claim gives sequence seqid at position p: its symbols in the
\* columns of the block at p that belong to p, filler as long as the
\* reference's fragment when the block lacks the sequence, one filler symbol
\* when no block holds p
ExpectedPiece(seqid, p) ==
    IF Covering(p) = {} THEN <<Filler(seqid)>>
    ELSE LET b == CHOOSE x \in Covering(p) : TRUE
             cols == ColumnsFollowing(b, p, p + 1)
         IN  IF \E j \in DOMAIN source[b] : source[b][j].id = seqid
             THEN AtColumns(
                      source[b][CHOOSE j \in DOMAIN source[b] :
                                    source[b][j].id = seqid].text, cols)
             ELSE [i \in DOMAIN cols |-> Filler(seqid)]

RECURSIVE ExpectedExon(_, _, _)
ExpectedExon(seqid, p, e) ==
    IF p >= e THEN <<>>
    ELSE ExpectedPiece(seqid, p) \o ExpectedExon(seqid, p + 1, e)

RECURSIVE ExpectedSpliced(_, _, _, _)
ExpectedSpliced(seqid, starts, ends, i) ==
    IF i > Len(starts) THEN <<>>
    ELSE ExpectedExon(seqid, starts[i], ends[i])
         \o ExpectedSpliced(seqid, starts, ends, i + 1)

\* C17: in the output of get_spliced (on the strand of the reference) every
\* sequence has, at every position of every exon, its stored fragment, else
\* filler as long as the reference's fragment there, else one filler symbol
\* ("N" for the reference, "-" for the others); no call fails on unequal
\* lengths when no block has the same sequence id twice, and the texts
\* returned are equally long.
C17_FillerMatchesReferenceFragment ==
    (call.op = "get_spliced" /\ call.strand = 1)
    => /\ (\A b \in DOMAIN source : DistinctIds(b))
          => call.error # "LengthMismatch"
       /\ call.error = "none"
          => \A seqid \in DOMAIN call.records :
                /\ call.records[seqid] =
                      ExpectedSpliced(seqid, call.starts, call.ends, 1)
                /\ Len(call.records[seqid]) = Len(call.records[BuildTarget])

C17_Witness ==
    /\ call.op = "get_spliced"
    /\ call.strand = 1
    /\ source = <<BlkGaps, BlkLone>>
    /\ call.starts = <<2, 8>>
    /\ call.ends = <<5, 10>>
    /\ call.error = "none"
    /\ call.records["ref"] = <<"N", "N", "-", "A", "G", "T">>
    /\ call.records["oth"] = <<"-", "-", "G", "-", "-", "-">>
    /\ call.records["new"] = <<"-", "-", "-", "-", "G", "A">>

\* block has a record of the reference with the coordinates (start, end)
HasReferenceAt(block, start, end) ==
    \E j \in DOMAIN block :
        /\ block[j].id = BuildTarget
        /\ block[j].start = start
        /\ block[j].start + block[j].size - 1 = end

\* the entries of the store that the exons of the call match and whose
\* block, as the source has it now, does not carry the reference at the
\* entry's coordinates
StaleMatches ==
    {r \in StoredRows :
        /\ \E i \in DOMAIN call.starts :
              r \in Overlapping(call.starts[i], call.ends[i])
        /\ ~HasReferenceAt(get_record(source, r[3]), r[1], r[2])}

\* C18: when the source is changed after a completed build, opening the
\* store again still succeeds with the record count of the build; a search
\* that matches an entry whose block no longer carries the reference at the
\* entry's coordinates fails; and no search yields a block without a record
\* of the reference at the coordinates of its entry, a block with no
\* reference record at all included.
C18_StaleBlockNeverYielded ==
    /\ [][(build.pc = "ready" /\ reader.maf_fp # "open"
           /\ reader'.maf_fp = "open")
          => (reader'.status = "ok"
              /\ reader'.record_count = build.insert_count)]_vars
    /\ [](call.op = "search"
          => /\ StaleMatches # {} => call.error # "none"
             /\ \A k \in DOMAIN call.yielded :
                   HasReferenceAt(call.yielded[k].block,
                                  call.yielded[k].start,
                                  call.yielded[k].end))

\* C19: after a successful build the store holds one entry per block of the
\* source, in the order of the blocks, with end = start + size - 1, the bin
\* of [start, end + 1) and the byte position at which the block's 'a' line
\* begins; the record count stored and len() are the number of blocks; and
\* no search, get_spliced or reopen changes the store afterwards.
C19_OneEntryPerBlock ==
    /\ [](build.pc = "ready"
          => /\ Len(db.rows) = Len(source)
             /\ \A k \in DOMAIN source :
                   /\ db.rows[k].start = RefRec(k).start
                   /\ db.rows[k].end = RefRec(k).start + RefRec(k).size - 1
                   /\ db.rows[k].bin =
                         ucscbin(db.rows[k].start, db.rows[k].end + 1)
                   /\ db.rows[k].offset = LineStart(source, k)
             /\ db.record_count = Len(source)
             /\ call.op = "len" => call.length = Len(source))
    /\ [][build.pc = "ready" => db' = db]_vars

=============================================================================
